---- MODULE Spec2Model ----
(***************************************************************************)
(* The brainfuck interpreter of src/brainfuck.rs: sanitise_code (the three *)
(* regex passes and the structural checks) and execute_code (the           *)
(* interpreter loop over the sanitised stream, the no-output notice and    *)
(* the memory report).                                                     *)
(*                                                                         *)
(* A text is a sequence of one-character strings.  Offsets reported by the *)
(* program are 0-based, sequences here are 1-based: offset i is element    *)
(* i + 1.  Only one-byte characters occur, so byte offsets and character   *)
(* offsets agree.                                                          *)
(***************************************************************************)
EXTENDS Integers, Sequences, FiniteSets, TLC

VARIABLES
    code,                       \* the raw source text handed to execute_code
    show_memory_after,          \* the flag handed to execute_code
    pc,                         \* where the process is: "start", "run", "done", "exit", "panic"
    brainfuck_code,             \* the sanitised stream
    code_index,                 \* the instruction pointer
    while_loop_start_indexes,   \* the loop-return stack
    has_console_output,
    memory,                     \* the tape: the non-zero cells, every other cell is 0
    ptr,                        \* the data pointer
    furthest_ptr,
    output,                     \* the character codes printed so far
    error,                      \* what throw_exception printed, or NoError
    notice,                     \* TRUE once "No output provided." is printed
    report                      \* the memory breakdown printed, or NoReport

vars == <<code, show_memory_after, pc, brainfuck_code, code_index,
          while_loop_start_indexes, has_console_output, memory, ptr,
          furthest_ptr, output, error, notice, report>>

----------------------------------------------------------------------------
(* Program constants *)

TapeLen == 30000
LastCell == 29999
CellMax == 255
CharMax == 255

(* Bounds of the model *)

MaxLen == 2         \* texts over the whole alphabet have at most MaxLen characters
MaxParts == 4       \* texts built from comment markers have at most MaxParts parts
MaxOut == 3         \* output records the first MaxOut characters printed
MaxCount == 6       \* the countdown programs start from at most MaxCount

----------------------------------------------------------------------------
(* Characters *)

Instructions == {">", "<", "+", "-", "[", "]", ".", ","}
Whitespace == {"\n", "\r", " ", "\t"}

\* A character that takes two bytes in a str, and what its two bytes are
\* when each is read as a char (0xC3 and 0xA9)
TwoByteChar == "U+00E9"
TwoByteCharBytes == <<"U+00C3", "U+00A9">>

Alphabet == Instructions \cup Whitespace \cup {"/", "*", "a", TwoByteChar}

NoPos == -1
NoError == [name |-> "", pos |-> NoPos, msg |-> ""]
NoReport == [shown |-> FALSE, cells |-> <<>>, ptr |-> 0]

----------------------------------------------------------------------------
(* str::find, str::rfind and the three regex replacements of sanitise_code *)

\* TRUE iff pat occurs in s at offset i
MatchAt(s, pat, i) ==
    /\ i >= 0
    /\ i + Len(pat) <= Len(s)
    /\ \A k \in 1..Len(pat) : s[i + k] = pat[k]

\* str::as_bytes with every byte read as a char: a str is UTF-8, len() and
\* the offsets of find and rfind count its bytes
RECURSIVE as_bytes(_)
as_bytes(s) ==
    IF \A i \in 1..Len(s) : s[i] # TwoByteChar THEN s
    ELSE (IF Head(s) = TwoByteChar THEN TwoByteCharBytes ELSE <<Head(s)>>)
            \o as_bytes(Tail(s))

\* The byte offset of the character behind the first i characters of s
ByteOffset(s, i) == i + Cardinality({k \in 1..i : s[k] = TwoByteChar})

\* find that answers the last occurrence
find_last(s, pat) ==
    LET hits == {i \in 0..Len(s) : MatchAt(s, pat, i)}
    IN  IF hits = {} THEN NoPos
        ELSE ByteOffset(s, CHOOSE i \in hits : \A j \in hits : i >= j)

\* str::find: the byte offset of the first occurrence of pat, or NoPos
find(s, pat) ==
    LET hits == {i \in 0..Len(s) : MatchAt(s, pat, i)}
    IN  IF hits = {} THEN NoPos
        ELSE ByteOffset(s, CHOOSE i \in hits : \A j \in hits : i <= j)

\* str::rfind: the byte offset of the last occurrence of pat, or NoPos
rfind(s, pat) ==
    LET hits == {i \in 0..Len(s) : MatchAt(s, pat, i)}
    IN  IF hits = {} THEN NoPos
        ELSE ByteOffset(s, CHOOSE i \in hits : \A j \in hits : i >= j)

\* s without the characters at offsets from..(to - 1)
Cut(s, from, to) == SubSeq(s, 1, from) \o SubSeq(s, to + 1, Len(s))

\* Regex \/\/.+ with replace: the FIRST match only.  A match starts at the
\* leftmost "//" that is followed by a character other than "\n" and runs
\* up to the next "\n" or the end of the text.
StripLineComment(s) ==
    LET starts == {i \in 0..Len(s) :
                     /\ MatchAt(s, <<"/", "/">>, i)
                     /\ i + 3 <= Len(s)
                     /\ s[i + 3] # "\n"}
    IN  IF starts = {} THEN s
        ELSE LET i == CHOOSE x \in starts : \A y \in starts : x <= y
                 ends == {j \in (i + 3)..(Len(s) - 1) : s[j + 1] = "\n"}
                 j == IF ends = {} THEN Len(s)
                      ELSE CHOOSE x \in ends : \A y \in ends : x <= y
             IN  Cut(s, i, j)

\* The whitespace regex without \t
StripWhitespaceNoTab(s) == SelectSeq(s, LAMBDA c : c \notin {"\n", "\r", " "})

\* The whitespace regex with replace for replace_all: the first match only
StripWhitespaceFirst(s) ==
    LET hits == {i \in 1..Len(s) : s[i] \in {"\n", "\r", " ", "\t"}}
    IN  IF hits = {} THEN s
        ELSE LET i == CHOOSE x \in hits : \A y \in hits : x <= y
             IN  SubSeq(s, 1, i - 1) \o SubSeq(s, i + 1, Len(s))

\* Regex \n|\r| |\t with replace_all
StripWhitespace(s) == SelectSeq(s, LAMBDA c : c \notin Whitespace)

\* Regex (\/\*)|(\*\/) with replace_all: the non-overlapping matches, found
\* left to right, are removed; what stands between them is kept.  The search
\* for the next match resumes behind the last one.
RECURSIVE StripMarkersFrom(_, _)
StripMarkersFrom(s, i) ==
    LET hits == {m \in i..Len(s) :
                   MatchAt(s, <<"/", "*">>, m) \/ MatchAt(s, <<"*", "/">>, m)}
    IN  IF hits = {} THEN SubSeq(s, i + 1, Len(s))
        ELSE LET m == CHOOSE x \in hits : \A y \in hits : x <= y
             IN  SubSeq(s, i + 1, m) \o StripMarkersFrom(s, m + 2)

StripMarkers(s) == StripMarkersFrom(s, 0)

\* bytes().filter(|c| *c == ch).count()
Count(s, ch) == Cardinality({i \in 1..Len(s) : s[i] = ch})

----------------------------------------------------------------------------
(* sanitise_code.  The result is [ok |-> TRUE, out |-> the stream] when the *)
(* function returns, and [ok |-> FALSE, err |-> what was thrown] when one   *)
(* of its throw_exception_with_pos calls ends the process.                  *)

Thrown(name, pos, msg) ==
    [ok |-> FALSE, out |-> <<>>, err |-> [name |-> name, pos |-> pos, msg |-> msg]]

Returned(s) == [ok |-> TRUE, out |-> s, err |-> NoError]

sanitise_code(src) ==
    LET new_code == StripLineComment(src)
        new_code_2 == StripWhitespace(new_code)
        new_code_3 == StripMarkers(new_code_2)
        while_loop_starts == Count(new_code_3, "[")
        while_loop_ends == Count(new_code_3, "]")
    IN  IF find(new_code_3, <<"/", "*">>) # NoPos
        THEN Thrown("SyntaxError", find(new_code_3, <<"/", "*">>),
                    "unterminated multi-line comments")
        ELSE IF find(new_code_3, <<"*", "/">>) # NoPos
        THEN Thrown("SyntaxError", find(new_code_3, <<"*", "/">>),
                    "stray comment characters")
        ELSE IF while_loop_starts > while_loop_ends /\ find(src, <<"[">>) # NoPos
        THEN Thrown("SyntaxError", find(src, <<"[">>),
                    "unterminated while loops")
        ELSE IF while_loop_starts < while_loop_ends /\ rfind(src, <<"]">>) # NoPos
        THEN Thrown("SyntaxError", rfind(src, <<"]">>),
                    "trailing while loop characters")
        ELSE Returned(new_code_3)

----------------------------------------------------------------------------
(* The tape.  memory is [i32; 30_000], all cells 0 at the start; the model  *)
(* keeps the cells that are not 0 and reads every other cell as 0.          *)

EmptyTape == [i \in {} |-> 0]

Cell(mem, i) == IF i \in DOMAIN mem THEN mem[i] ELSE 0

Store(mem, i, v) ==
    IF v = 0
    THEN [j \in (DOMAIN mem) \ {i} |-> mem[j]]
    ELSE [j \in (DOMAIN mem) \cup {i} |-> IF j = i THEN v ELSE mem[j]]

\* The characters read_char can deliver, by code point
Keys == {0, 65, 255, 256}

\* char::from_u32 is Some exactly on the Unicode scalar values
IsChar(v) == v \in 0..55295 \/ v \in 57344..1114111

----------------------------------------------------------------------------
(* The state of the interpreter *)

engine == <<brainfuck_code, code_index, while_loop_start_indexes,
            has_console_output, memory, ptr, furthest_ptr, output>>

\* throw_exception that prints and returns: the loop goes on behind it
throw_exception_returns(error_name, error_message) ==
    /\ error' = [name |-> error_name, pos |-> NoPos, msg |-> error_message]
    /\ code_index' = code_index + 1
    /\ UNCHANGED <<code, show_memory_after, pc, brainfuck_code,
                   while_loop_start_indexes, has_console_output, memory, ptr,
                   furthest_ptr, output, notice, report>>

\* throw_exception: print and exit(0)
throw_exception(error_name, error_message) ==
    /\ pc' = "exit"
    /\ error' = [name |-> error_name, pos |-> NoPos, msg |-> error_message]
    /\ UNCHANGED <<code, show_memory_after, engine, notice, report>>

\* throw_exception_with_pos: print and exit(0)
throw_exception_with_pos(error_name, error_position, error_message) ==
    /\ pc' = "exit"
    /\ error' = [name |-> error_name, pos |-> error_position, msg |-> error_message]
    /\ UNCHANGED <<code, show_memory_after, engine, notice, report>>

\* Option::expect on None: the process panics
Panic(message) ==
    /\ pc' = "panic"
    /\ error' = [name |-> "panic", pos |-> NoPos, msg |-> message]
    /\ UNCHANGED <<code, show_memory_after, engine, notice, report>>

\* The interpreter loop is at an instruction: code_index < brainfuck_code.len()
Running == pc = "run" /\ code_index < Len(as_bytes(brainfuck_code))

\* brainfuck_code.as_bytes()[code_index] as char
current == as_bytes(brainfuck_code)[code_index + 1]

\* code_index += 1 at the end of the loop body; nothing is printed
Advance ==
    /\ code_index' = code_index + 1
    /\ UNCHANGED <<code, show_memory_after, pc, brainfuck_code, error, notice, report>>

\* memory[ptr] with ptr outside the array panics
InTape(i) == i \in 0..(TapeLen - 1)

----------------------------------------------------------------------------
(* execute_code *)

\* let brainfuck_code = sanitise_code(code); and the locals of execute_code
Sanitise ==
    /\ pc = "start"
    /\ LET r == sanitise_code(code)
       IN  IF r.ok
           THEN /\ pc' = "run"
                /\ brainfuck_code' = r.out
                /\ UNCHANGED <<code, show_memory_after, code_index,
                               while_loop_start_indexes, has_console_output, memory,
                               ptr, furthest_ptr, output, error, notice, report>>
           ELSE throw_exception_with_pos(r.err.name, r.err.pos, r.err.msg)

\* '>' that keeps no record of the furthest pointer
MoveRightNoRecord ==
    /\ Running
    /\ current = ">"
    /\ IF ptr = LastCell
       THEN throw_exception("OutOfBoundsError", "rightward bounds")
       ELSE /\ ptr' = ptr + 1
            /\ Advance
            /\ UNCHANGED <<while_loop_start_indexes, has_console_output, memory, output,
                           furthest_ptr>>

\* '>'
MoveRight ==
    /\ Running
    /\ current = ">"
    /\ IF ptr = LastCell
       THEN throw_exception("OutOfBoundsError", "rightward bounds")
       ELSE /\ ptr' = ptr + 1
            /\ furthest_ptr' = IF ptr + 1 > furthest_ptr THEN ptr + 1 ELSE furthest_ptr
            /\ Advance
            /\ UNCHANGED <<while_loop_start_indexes, has_console_output, memory, output>>

\* '<' without the bounds check
MoveLeftUnchecked ==
    /\ Running
    /\ current = "<"
    /\ ptr' = ptr - 1
    /\ code_index' = code_index + 1
    /\ UNCHANGED <<code, show_memory_after, pc, brainfuck_code, error, notice, report,
                   while_loop_start_indexes, has_console_output, memory,
                   furthest_ptr, output>>

\* '<'
MoveLeft ==
    /\ Running
    /\ current = "<"
    /\ IF ptr = 0
       THEN throw_exception("OutOfBoundsError", "leftward bounds")
       ELSE /\ ptr' = ptr - 1
            /\ Advance
            /\ UNCHANGED <<while_loop_start_indexes, has_console_output, memory,
                           furthest_ptr, output>>

\* '+' that wraps to 0 behind 255
IncrementWraps ==
    /\ Running
    /\ current = "+"
    /\ memory' = Store(memory, ptr, (Cell(memory, ptr) + 1) % (CellMax + 1))
    /\ code_index' = code_index + 1
    /\ UNCHANGED <<code, show_memory_after, pc, brainfuck_code, error, notice, report,
                   while_loop_start_indexes, has_console_output, ptr,
                   furthest_ptr, output>>

\* '+'
Increment ==
    /\ Running
    /\ current = "+"
    /\ IF ~InTape(ptr) THEN Panic("index out of bounds")
       ELSE IF Cell(memory, ptr) = CellMax
       THEN throw_exception("OverflowError", "past integer limit of 255")
       ELSE /\ memory' = Store(memory, ptr, Cell(memory, ptr) + 1)
            /\ Advance
            /\ UNCHANGED <<while_loop_start_indexes, has_console_output, ptr,
                           furthest_ptr, output>>

\* '-'
Decrement ==
    /\ Running
    /\ current = "-"
    /\ IF ~InTape(ptr) THEN Panic("index out of bounds")
       ELSE IF Cell(memory, ptr) = 0
       THEN throw_exception("SubZeroError", "below 0")
       ELSE /\ memory' = Store(memory, ptr, Cell(memory, ptr) - 1)
            /\ Advance
            /\ UNCHANGED <<while_loop_start_indexes, has_console_output, ptr,
                           furthest_ptr, output>>

\* '[' that tests the cell: at 0 it goes behind the next ']' without a push
LoopEntrySkips ==
    /\ Running
    /\ current = "["
    /\ IF Cell(memory, ptr) = 0
       THEN LET exits == {k \in (code_index + 1)..(Len(brainfuck_code) - 1) :
                            brainfuck_code[k + 1] = "]"}
            IN  /\ code_index' = IF exits = {} THEN Len(brainfuck_code)
                                 ELSE 1 + CHOOSE k \in exits : \A m \in exits : k <= m
                /\ UNCHANGED <<code, show_memory_after, pc, brainfuck_code, error,
                               notice, report, while_loop_start_indexes>>
       ELSE /\ while_loop_start_indexes' = Append(while_loop_start_indexes, code_index)
            /\ Advance
    /\ UNCHANGED <<has_console_output, memory, ptr, furthest_ptr, output>>

\* '['
LoopEntry ==
    /\ Running
    /\ current = "["
    /\ while_loop_start_indexes' = Append(while_loop_start_indexes, code_index)
    /\ Advance
    /\ UNCHANGED <<has_console_output, memory, ptr, furthest_ptr, output>>

\* ']' that leaves the stack alone when the loop ends
LoopExitKeepsEntry ==
    /\ Running
    /\ current = "]"
    /\ IF ~InTape(ptr) THEN Panic("index out of bounds")
       ELSE IF Cell(memory, ptr) > 0
       THEN IF while_loop_start_indexes = <<>>
            THEN Panic("Fatal Error: the while loop last indexes array did not contain any indexes.")
            ELSE /\ code_index' =
                        while_loop_start_indexes[Len(while_loop_start_indexes)] + 1
                 /\ UNCHANGED <<code, show_memory_after, pc, brainfuck_code, error,
                                notice, report, while_loop_start_indexes,
                                has_console_output, memory, ptr, furthest_ptr, output>>
       ELSE /\ UNCHANGED while_loop_start_indexes
            /\ Advance
            /\ UNCHANGED <<has_console_output, memory, ptr, furthest_ptr, output>>

\* ']' with >= 0 for > 0: it goes back whatever the cell holds
LoopExitAlways ==
    /\ Running
    /\ current = "]"
    /\ IF ~InTape(ptr) THEN Panic("index out of bounds")
       ELSE IF Cell(memory, ptr) >= 0
       THEN IF while_loop_start_indexes = <<>>
            THEN Panic("Fatal Error: the while loop last indexes array did not contain any indexes.")
            ELSE /\ code_index' =
                        while_loop_start_indexes[Len(while_loop_start_indexes)] + 1
                 /\ UNCHANGED <<code, show_memory_after, pc, brainfuck_code, error,
                                notice, report, while_loop_start_indexes,
                                has_console_output, memory, ptr, furthest_ptr, output>>
       ELSE /\ while_loop_start_indexes' =
                   IF while_loop_start_indexes = <<>> THEN <<>>
                   ELSE SubSeq(while_loop_start_indexes, 1,
                               Len(while_loop_start_indexes) - 1)
            /\ Advance
            /\ UNCHANGED <<has_console_output, memory, ptr, furthest_ptr, output>>

\* ']' that goes back to the loop-entry itself: no code_index += 1 behind it
LoopExitBackToEntry ==
    /\ Running
    /\ current = "]"
    /\ IF ~InTape(ptr) THEN Panic("index out of bounds")
       ELSE IF Cell(memory, ptr) > 0
       THEN IF while_loop_start_indexes = <<>>
            THEN Panic("Fatal Error: the while loop last indexes array did not contain any indexes.")
            ELSE /\ code_index' =
                        while_loop_start_indexes[Len(while_loop_start_indexes)]
                 /\ UNCHANGED <<code, show_memory_after, pc, brainfuck_code, error,
                                notice, report, while_loop_start_indexes,
                                has_console_output, memory, ptr, furthest_ptr, output>>
       ELSE /\ while_loop_start_indexes' =
                   IF while_loop_start_indexes = <<>> THEN <<>>
                   ELSE SubSeq(while_loop_start_indexes, 1,
                               Len(while_loop_start_indexes) - 1)
            /\ Advance
            /\ UNCHANGED <<has_console_output, memory, ptr, furthest_ptr, output>>

\* ']' that pops the stack when it goes back, too
LoopExitPopsAlways ==
    /\ Running
    /\ current = "]"
    /\ IF ~InTape(ptr) THEN Panic("index out of bounds")
       ELSE IF Cell(memory, ptr) > 0
       THEN IF while_loop_start_indexes = <<>>
            THEN Panic("Fatal Error: the while loop last indexes array did not contain any indexes.")
            ELSE /\ code_index' =
                        while_loop_start_indexes[Len(while_loop_start_indexes)] + 1
                 /\ while_loop_start_indexes' =
                        SubSeq(while_loop_start_indexes, 1,
                               Len(while_loop_start_indexes) - 1)
                 /\ UNCHANGED <<code, show_memory_after, pc, brainfuck_code, error,
                                notice, report,
                                has_console_output, memory, ptr, furthest_ptr, output>>
       ELSE /\ while_loop_start_indexes' =
                   IF while_loop_start_indexes = <<>> THEN <<>>
                   ELSE SubSeq(while_loop_start_indexes, 1,
                               Len(while_loop_start_indexes) - 1)
            /\ Advance
            /\ UNCHANGED <<has_console_output, memory, ptr, furthest_ptr, output>>

\* ']': back to the top of the stack (and code_index += 1 after it) while the
\* cell is above 0, else pop; Vec::pop on an empty vector does nothing
LoopExit ==
    /\ Running
    /\ current = "]"
    /\ IF ~InTape(ptr) THEN Panic("index out of bounds")
       ELSE IF Cell(memory, ptr) > 0
       THEN IF while_loop_start_indexes = <<>>
            THEN Panic("Fatal Error: the while loop last indexes array did not contain any indexes.")
            ELSE /\ code_index' =
                        while_loop_start_indexes[Len(while_loop_start_indexes)] + 1
                 /\ UNCHANGED <<code, show_memory_after, pc, brainfuck_code, error,
                                notice, report, while_loop_start_indexes,
                                has_console_output, memory, ptr, furthest_ptr, output>>
       ELSE /\ while_loop_start_indexes' =
                   IF while_loop_start_indexes = <<>> THEN <<>>
                   ELSE SubSeq(while_loop_start_indexes, 1,
                               Len(while_loop_start_indexes) - 1)
            /\ Advance
            /\ UNCHANGED <<has_console_output, memory, ptr, furthest_ptr, output>>

\* '.': output keeps the first MaxOut characters that were printed
Output ==
    /\ Running
    /\ current = "."
    /\ IF ~InTape(ptr) THEN Panic("index out of bounds")
       ELSE IF ~IsChar(Cell(memory, ptr)) THEN Panic("unwrap on None")
       ELSE /\ output' = IF Len(output) < MaxOut
                         THEN Append(output, Cell(memory, ptr))
                         ELSE output
            /\ has_console_output' = TRUE
            /\ Advance
            /\ UNCHANGED <<while_loop_start_indexes, memory, ptr, furthest_ptr>>

\* ',' that stores the character before it tests it
InputStoresFirst ==
    /\ Running
    /\ current = ","
    /\ \E input_char \in Keys :
         IF ~InTape(ptr) THEN Panic("index out of bounds")
         ELSE IF input_char > CharMax
         THEN /\ memory' = Store(memory, ptr, input_char)
              /\ pc' = "exit"
              /\ error' = [name |-> "OverflowError", pos |-> code_index,
                           msg |-> "inputted character exceeds value of 255"]
              /\ UNCHANGED <<code, show_memory_after, brainfuck_code, code_index,
                             while_loop_start_indexes, has_console_output, ptr,
                             furthest_ptr, output, notice, report>>
         ELSE /\ memory' = Store(memory, ptr, input_char)
              /\ Advance
              /\ UNCHANGED <<while_loop_start_indexes, has_console_output, ptr,
                             furthest_ptr, output>>

\* ','
Input ==
    /\ Running
    /\ current = ","
    /\ \E input_char \in Keys :
         IF input_char > CharMax
         THEN throw_exception_with_pos("OverflowError", code_index,
                                       "inputted character exceeds value of 255")
         ELSE IF ~InTape(ptr) THEN Panic("index out of bounds")
         ELSE /\ memory' = Store(memory, ptr, input_char)
              /\ Advance
              /\ UNCHANGED <<while_loop_start_indexes, has_console_output, ptr,
                             furthest_ptr, output>>

\* _
Unrecognised ==
    /\ Running
    /\ current \notin Instructions
    /\ throw_exception_with_pos("SyntaxError", code_index, current)

\* The memory breakdown with 0..furthest_ptr for 0..(furthest_ptr + 1)
MemoryReportShort(mem, far, p) ==
    LET cells == {i \in DOMAIN mem : i >= 0 /\ i < far /\ mem[i] > 0}
        lines[n \in 0..Cardinality(cells)] ==
            IF n = 0 THEN <<>>
            ELSE LET i == CHOOSE x \in cells :
                              Cardinality({y \in cells : y < x}) = n - 1
                 IN  Append(lines[n - 1], <<i, mem[i]>>)
    IN  [shown |-> TRUE, cells |-> lines[Cardinality(cells)], ptr |-> p]

\* The (position, value) lines of the memory breakdown: for i in 0..(far + 1),
\* the cells above 0
RECURSIVE Breakdown(_, _)
Breakdown(mem, cells) ==
    IF cells = {} THEN <<>>
    ELSE LET i == CHOOSE x \in cells : \A y \in cells : x <= y
         IN  <<<<i, mem[i]>>>> \o Breakdown(mem, cells \ {i})

MemoryReport(mem, far, p) ==
    [shown |-> TRUE,
     cells |-> Breakdown(mem, {i \in DOMAIN mem : i >= 0 /\ i < far + 1 /\ mem[i] > 0}),
     ptr |-> p]

\* After the loop: the notice and the memory breakdown
Finish ==
    /\ pc = "run"
    /\ ~(code_index < Len(as_bytes(brainfuck_code)))
    /\ pc' = "done"
    /\ notice' = ~has_console_output
    /\ report' = IF show_memory_after
                 THEN MemoryReport(memory, furthest_ptr, ptr)
                 ELSE NoReport
    /\ UNCHANGED <<code, show_memory_after, engine, error>>

----------------------------------------------------------------------------
(* The runs: a source text and the flag *)

\* The texts of at most n characters of the set chars
RECURSIVE Texts(_, _)
Texts(chars, n) ==
    IF n = 0 THEN {<<>>}
    ELSE LET shorter == Texts(chars, n - 1)
         IN  shorter \cup {Append(t, c) : t \in shorter, c \in chars}

\* The texts that are at most n of the parts, one after the other
RECURSIVE Joined(_, _)
Joined(parts, n) ==
    IF n = 0 THEN {<<>>}
    ELSE LET shorter == Joined(parts, n - 1)
         IN  shorter \cup {t \o p : t \in shorter, p \in parts}

CommentParts ==
    {<<">">>, <<"[">>, <<"]">>, <<"/", "*">>, <<"*", "/">>, <<"/", "/">>, <<"\n">>}

\* "+" n times
Plus(n) == [i \in 1..n |-> "+"]

\* The countdown loop [-] entered with the current cell at n, at cell 0 or
\* at cell 1 beside a non-zero cell
Countdowns(counts) ==
    {pre \o Plus(n) \o <<"[", "-", "]">> \o post :
        pre \in {<<>>, <<"+", ">">>}, post \in {<<>>, <<".">>}, n \in counts}

\* A loop that walks the whole tape, leaving every cell behind it at 0
Walks == { <<"+", "[", "-", ">", "+", "]">> }

\* Loops: one that counts up to the cell limit, one that never ends, cat, nested
\* and wrongly nested ones; a cell set beside the pointer; texts whose comment
\* markers overlap
Loops ==
    { <<"[", "+", "]">>,
      <<"+", "[", "-", "+", "]">>,
      <<"[", "-", "]">>,
      <<",", "[", ".", ",", "]">>,
      <<"+", "[", "[", "-", "]", "]">>,
      <<"+", "+", "[", ">", "+", "<", "-", "]">>,
      <<"]", "[">>,
      <<"+", "]", "[">>,
      <<">", "+", "<">>,
      <<"[", "*", " ", "*", "/", " ", "/">>,
      <<"*", " ", "*", "/", " ", "/", "]">>,
      <<"/", " ", "/", "*", "*", "[">> }

\* Programs that set one cell away from cell 0: cell 10 to 7, the pointer
\* left on it or taken one cell back
Marks ==
    { [i \in 1..17 |-> IF i <= 10 THEN ">" ELSE "+"],
      [i \in 1..18 |-> IF i <= 10 THEN ">" ELSE IF i <= 17 THEN "+" ELSE "<"] }

\* Programs with comments: an instruction in a block comment, a loop-entry
\* in one, a block comment of two lines, and two line comments
Commented ==
    { <<">", "/", "*", ">", "*", "/", ">">>,
      <<"[", "/", "*", "[", "*", "/", "]">>,
      <<"+", "/", "*", "\n", "*", "/", "+">>,
      <<"/", "/", ">", "\n", "/", "/", ">">>,
      <<">", "/", "/", "a", "\n", ">", "/", "/", "a">> }

Sources ==
    Texts(Alphabet, MaxLen) \cup Joined(CommentParts, MaxParts)
        \cup Countdowns((1..MaxCount) \cup {CellMax}) \cup Loops \cup Walks
        \cup Marks \cup Commented

\* The sources of the runs whose progress is checked
ShortSources ==
    Texts(Instructions \cup {" ", "a"}, MaxLen) \cup Countdowns(1..MaxCount) \cup Loops

\* execute_code is entered: nothing has run yet
Entered ==
    /\ show_memory_after \in BOOLEAN
    /\ pc = "start"
    /\ brainfuck_code = <<>>
    /\ code_index = 0
    /\ while_loop_start_indexes = <<>>
    /\ has_console_output = FALSE
    /\ memory = EmptyTape
    /\ ptr = 0
    /\ furthest_ptr = 0
    /\ output = <<>>
    /\ error = NoError
    /\ notice = FALSE
    /\ report = NoReport

Init == code \in Sources /\ Entered

InitShort == code \in ShortSources /\ Entered

Next ==
    \/ Sanitise
    \/ MoveRight
    \/ MoveLeft
    \/ Increment
    \/ Decrement
    \/ LoopEntry
    \/ LoopExit
    \/ Output
    \/ Input
    \/ Unrecognised
    \/ Finish

Spec == Init /\ [][Next]_vars

\* The interpreter is one thread that keeps stepping until the process ends
FairSpec == InitShort /\ [][Next]_vars /\ WF_vars(Next)

Ended == pc \in {"done", "exit", "panic"}

----------------------------------------------------------------------------
(* Properties *)

\* The interpreter is about to execute the instruction c
AtInstr(c) == Running /\ current = c

Faults == {"OutOfBoundsError", "OverflowError", "SubZeroError", "SyntaxError"}

\* C1: every cell holds a value in 0..255 in every state; '+' on a cell at
\* 255 ends the run with OverflowError and '-' on a cell at 0 ends it with
\* SubZeroError, the tape left as it was.
C1_CellsStayInRange ==
    /\ [](\A i \in DOMAIN memory : memory[i] \in 0..255)
    /\ [][AtInstr("+") /\ Cell(memory, ptr) = 255
            => pc' = "exit" /\ error'.name = "OverflowError" /\ memory' = memory]_vars
    /\ [][AtInstr("-") /\ Cell(memory, ptr) = 0
            => pc' = "exit" /\ error'.name = "SubZeroError" /\ memory' = memory]_vars

\* '+' was executed on a cell holding 255
C1_Witness ==
    /\ pc = "exit"
    /\ error.name = "OverflowError"
    /\ error.pos = NoPos
    /\ brainfuck_code[code_index + 1] = "+"
    /\ Cell(memory, ptr) = CellMax

\* C2: the data pointer is in 0..29999 in every state; '<' at 0 and '>' at
\* 29999 end the run with OutOfBoundsError and leave the pointer; a move at
\* any other position does not fail and changes the pointer by exactly one.
C2_PointerStaysOnTape ==
    /\ [](ptr \in 0..29999)
    /\ [][AtInstr("<") /\ ptr = 0
            => pc' = "exit" /\ error'.name = "OutOfBoundsError" /\ ptr' = ptr]_vars
    /\ [][AtInstr(">") /\ ptr = 29999
            => pc' = "exit" /\ error'.name = "OutOfBoundsError" /\ ptr' = ptr]_vars
    /\ [][AtInstr("<") /\ ptr # 0
            => pc' = "run" /\ error' = NoError /\ ptr' = ptr - 1]_vars
    /\ [][AtInstr(">") /\ ptr # 29999
            => pc' = "run" /\ error' = NoError /\ ptr' = ptr + 1]_vars

\* '>' was executed with the pointer on the last cell
C2_Witness ==
    /\ pc = "exit"
    /\ error.name = "OutOfBoundsError"
    /\ brainfuck_code[code_index + 1] = ">"
    /\ ptr = 29999

\* The countdown programs: the offset of the loop-entry, the cell the loop
\* works on and the value it is entered with
CountdownSources == Countdowns(1..255)
CountdownCell(src) == IF Len(src) >= 2 /\ src[2] = ">" THEN 1 ELSE 0
CountdownEntry(src) == find(src, <<"[">>)
CountdownFrom(src) == CountdownEntry(src) - 2 * CountdownCell(src)

\* The tape a countdown program leaves behind its loop
CountdownTape(src) == IF CountdownCell(src) = 1 THEN [i \in {0} |-> 1] ELSE EmptyTape

\* C3: the loop [-] entered with the current cell at n in 1..255 is left:
\* the cell is n at the loop-entry, every execution of '-' lowers it by
\* exactly one, the loop-exit leaves the loop exactly when the cell is 0 (so
\* after n executions of '-'), no fault occurs, the run ends, and behind the
\* loop the cell is 0, the pointer and every other cell are as before and
\* the loop-return stack is as deep as before the loop-entry.
C3_CountdownEnds ==
    /\ [](code \in CountdownSources => pc \notin {"exit", "panic"})
    /\ [](code \in CountdownSources /\ Running /\ code_index = CountdownEntry(code)
            => /\ Cell(memory, ptr) = CountdownFrom(code)
               /\ ptr = CountdownCell(code)
               /\ while_loop_start_indexes = <<>>)
    /\ [][AtInstr("-") /\ code \in CountdownSources
            => Cell(memory', ptr') = Cell(memory, ptr) - 1]_vars
    /\ [][AtInstr("]") /\ code \in CountdownSources
            => code_index' = (IF Cell(memory, ptr) = 0
                              THEN CountdownEntry(code) + 3
                              ELSE CountdownEntry(code) + 1)]_vars
    /\ [](code \in CountdownSources /\ pc \in {"run", "done"}
              /\ code_index >= CountdownEntry(code) + 3
            => /\ memory = CountdownTape(code)
               /\ ptr = CountdownCell(code)
               /\ while_loop_start_indexes = <<>>)
    /\ (code \in CountdownSources /\ pc = "start") ~> (pc = "done")

\* The run of +>++++++[-] has ended
C3_Witness ==
    /\ code \in CountdownSources
    /\ CountdownFrom(code) = MaxCount
    /\ CountdownCell(code) = 1
    /\ pc = "done"
    /\ Cell(memory, 1) = 0
    /\ Cell(memory, 0) = 1

\* C4: a fault ends the run at once: the state in which a fault was raised
\* never changes again (no instruction, no output, no change of the tape,
\* the pointer or the stack), and it carries neither the no-output notice
\* nor the memory report; an error is never recorded without ending the run.
C4_FaultIsFinal ==
    /\ [][pc = "exit" => UNCHANGED vars]_vars
    /\ [](pc = "exit" => error.name \in Faults /\ ~notice /\ report = NoReport)
    /\ [](error.name \in Faults => pc = "exit")

\* '-' on a cell at 0 ended the run with instructions left in the stream
C4_Witness ==
    /\ pc = "exit"
    /\ error.name = "SubZeroError"
    /\ code_index + 1 < Len(brainfuck_code)
    /\ ~notice

\* C5 as stated: every run ends
C5_EveryRunEnds == <>Ended

\* C5, amended: a run ends, or it is again and again at a loop-exit whose
\* current cell is not 0.
C5_EndsOrRepeatsLoop ==
    <>Ended \/ []<>(AtInstr("]") /\ Cell(memory, ptr) > 0)

\* +[-+] is at its loop-exit with the cell at 1
C5_Witness ==
    /\ brainfuck_code = <<"+", "[", "-", "+", "]">>
    /\ AtInstr("]")
    /\ Cell(memory, ptr) = 1
    /\ while_loop_start_indexes = <<1>>

\* What sanitise_code has when it counts the brackets: the source behind
\* the three replacements
Stripped(src) == StripMarkers(StripWhitespace(StripLineComment(src)))

OnlyInstructions(s) == \A i \in 1..Len(s) : s[i] \in Instructions

Balanced(s) == Count(s, "[") = Count(s, "]")

\* sanitise_code has returned a stream
SanitiseReturned == pc \in {"run", "done"}

\* C6 as stated: the stream sanitise_code returns holds only the eight
\* instruction characters
C6_OnlyInstructionsReturned ==
    SanitiseReturned => OnlyInstructions(brainfuck_code)

\* C6, amended: the stream sanitise_code returns holds no space, tab,
\* newline or carriage return and no comment marker, and as many [ as ]; it
\* can hold characters that are not instructions.
C6_NoWhitespaceNoMarkers ==
    SanitiseReturned =>
        /\ \A i \in 1..Len(brainfuck_code) : brainfuck_code[i] \notin {" ", "\t", "\n", "\r"}
        /\ find(brainfuck_code, <<"/", "*">>) = NoPos
        /\ find(brainfuck_code, <<"*", "/">>) = NoPos
        /\ Balanced(brainfuck_code)

\* A stream was returned for a source with whitespace and a character that
\* is no instruction, which is still in the stream
C6_Witness ==
    /\ pc = "run"
    /\ \E i \in 1..Len(code) : code[i] \in Whitespace
    /\ \E i \in 1..Len(brainfuck_code) : brainfuck_code[i] \notin Instructions

\* src holds a block comment from offset i (its open marker) to offset j
\* (its close marker, the first one behind the open marker), with
\* instructions and nothing else before and behind it
CommentBetween(src, i, j) ==
    /\ MatchAt(src, <<"/", "*">>, i)
    /\ MatchAt(src, <<"*", "/">>, j)
    /\ i >= 1
    /\ j >= i + 2
    /\ j + 2 < Len(src)
    /\ \A k \in (i + 2)..(j - 1) : ~MatchAt(src, <<"*", "/">>, k)
    /\ OnlyInstructions(SubSeq(src, 1, i))
    /\ OnlyInstructions(SubSeq(src, j + 3, Len(src)))

\* C7: a block comment between instructions is stripped whole: the stream
\* is the one sanitise_code returns for the source without the comment.
C7_BlockCommentStripped ==
    \A i, j \in 0..Len(code) :
        pc # "start" /\ CommentBetween(code, i, j)
                     /\ sanitise_code(Cut(code, i, j + 2)).ok
            => brainfuck_code = sanitise_code(Cut(code, i, j + 2)).out

\* The source without its line comments: every "//" and what follows it up
\* to the end of its line
RECURSIVE WithoutLineComments(_, _)
WithoutLineComments(s, i) ==
    LET hits == {m \in i..Len(s) : MatchAt(s, <<"/", "/">>, m)}
    IN  IF hits = {} THEN SubSeq(s, i + 1, Len(s))
        ELSE LET m == CHOOSE x \in hits : \A y \in hits : x <= y
                 ends == {e \in (m + 2)..(Len(s) - 1) : s[e + 1] = "\n"}
                 e == IF ends = {} THEN Len(s)
                      ELSE CHOOSE x \in ends : \A y \in ends : x <= y
             IN  SubSeq(s, i + 1, m) \o WithoutLineComments(s, e)

\* The instructions of a text, in order
InstructionsOf(s) == SelectSeq(s, LAMBDA c : c \in Instructions)

\* src holds line comments and no block comment marker, and is a valid
\* program without its line comments
LineCommented(src) ==
    /\ find(src, <<"/", "/">>) # NoPos
    /\ \A i \in 1..Len(src) : src[i] # "*"
    /\ \A i \in 1..Len(WithoutLineComments(src, 0)) :
          WithoutLineComments(src, 0)[i] \in Instructions \cup Whitespace
    /\ Balanced(WithoutLineComments(src, 0))

\* C8: every line comment is stripped: the stream holds the instructions
\* outside the line comments and nothing else.
C8_LineCommentsStripped ==
    pc # "start" /\ LineCommented(code)
        => brainfuck_code = InstructionsOf(WithoutLineComments(code, 0))

\* src is instructions and whitespace, and a valid program without the
\* whitespace
Spaced(src) ==
    /\ \A i \in 1..Len(src) : src[i] \in Instructions \cup Whitespace
    /\ Balanced(InstructionsOf(src))

\* C9: whitespace between the instructions of a valid program changes
\* nothing: sanitise_code returns the program's instructions, the stream the
\* program itself is run as, so the run is the same.
C9_WhitespaceIrrelevant ==
    pc # "start" /\ Spaced(code)
        => /\ brainfuck_code = InstructionsOf(code)
           /\ error.name # "SyntaxError"

\* A program with whitespace between its instructions has run to its end
C9_Witness ==
    /\ pc = "done"
    /\ Spaced(code)
    /\ Len(brainfuck_code) >= 2
    /\ Len(code) > Len(brainfuck_code)
    /\ code[1] \in Instructions
    /\ code[Len(code)] \in Instructions

\* sanitise_code has thrown: nothing was executed
NothingExecuted ==
    /\ pc = "exit"
    /\ error.name = "SyntaxError"
    /\ brainfuck_code = <<>>
    /\ code_index = 0
    /\ memory = EmptyTape
    /\ ptr = 0
    /\ output = <<>>
    /\ while_loop_start_indexes = <<>>

\* The offsets of a character in a text, counted in bytes as a position is
OffsetsOf(s, ch) ==
    {i + Cardinality({k \in 1..i : s[k] = TwoByteChar}) :
        i \in {j \in 0..(Len(s) - 1) : s[j + 1] = ch}}

\* The offset the bracket count is to report: the first [ of the source when
\* the stripped text has more [ than ], and the last ] when it has fewer
BracketPos(src) ==
    IF Count(Stripped(src), "[") > Count(Stripped(src), "]")
    THEN CHOOSE i \in OffsetsOf(src, "[") : \A j \in OffsetsOf(src, "[") : i <= j
    ELSE CHOOSE i \in OffsetsOf(src, "]") : \A j \in OffsetsOf(src, "]") : i >= j

\* The offset of the comment marker left in a text, or NoPos
MarkerPos(s) ==
    IF find(s, <<"/", "*">>) # NoPos THEN find(s, <<"/", "*">>)
    ELSE find(s, <<"*", "/">>)

\* C10 as stated: a source whose stripped text has unequal numbers of [ and
\* ] is rejected with SyntaxError at the first [ or the last ] of the source
C10_UnbalancedRejectedAtBracket ==
    pc # "start" /\ ~Balanced(Stripped(code))
        => NothingExecuted /\ error.pos = BracketPos(code)

\* C10, amended: such a source is rejected with SyntaxError and nothing is
\* executed; the position is that of the first [ or the last ] of the source
\* when the stripped text holds no comment marker, and else the error is the
\* one for that marker, which is looked for before the brackets are counted.
C10_UnbalancedRejected ==
    pc # "start" /\ ~Balanced(Stripped(code))
        => /\ NothingExecuted
           /\ IF MarkerPos(Stripped(code)) = NoPos
              THEN /\ error.pos = BracketPos(code)
                   /\ error.msg \in {"unterminated while loops",
                                     "trailing while loop characters"}
              ELSE error.msg \in {"unterminated multi-line comments",
                                  "stray comment characters"}

\* An unterminated loop was reported at a [ that is not the first character
C10_Witness ==
    /\ pc = "exit"
    /\ error.msg = "unterminated while loops"
    /\ error.pos >= 1
    /\ Count(code, "[") >= 2

\* The offsets at which a source holds one of the three comment markers
MarkersOf(src) ==
    {i \in 0..Len(src) : \/ MatchAt(src, <<"/", "*">>, i)
                         \/ MatchAt(src, <<"*", "/">>, i)
                         \/ MatchAt(src, <<"/", "/">>, i)}

\* The only comment marker of src is the one at offset i
OnlyMarker(src, pat, i) == MatchAt(src, pat, i) /\ MarkersOf(src) = {i}

\* C11: a source whose only comment marker is an open marker with no close
\* marker, or a close marker with no open marker, is rejected by
\* sanitise_code with SyntaxError at the offset of that marker in the
\* source, and nothing of it is executed.
C11_StrayMarkerRejected ==
    \A i \in 0..Len(code) :
        pc # "start" /\ (\/ OnlyMarker(code, <<"/", "*">>, i)
                         \/ OnlyMarker(code, <<"*", "/">>, i))
            => NothingExecuted /\ error.pos = i

\* C12: when the engine is at a character of the stream that is none of the
\* eight instructions, the run ends there with SyntaxError, and the error
\* names that character of the stream and its index; nothing else changes.
C12_UnrecognisedNamed ==
    [][Running /\ current \notin Instructions
          => /\ pc' = "exit"
             /\ error'.name = "SyntaxError"
             /\ error'.pos = code_index
             /\ \E k \in 1..Len(brainfuck_code) :
                   /\ ByteOffset(brainfuck_code, k - 1) = error'.pos
                   /\ brainfuck_code[k] = error'.msg
             /\ UNCHANGED engine]_vars

C14_ReportIsTheTape ==
    IF pc = "done" /\ show_memory_after
    THEN /\ report.shown
         /\ report.ptr = ptr
         /\ \A k \in 1..Len(report.cells) :
               /\ report.cells[k][1] \in 0..furthest_ptr
               /\ report.cells[k][2] = Cell(memory, report.cells[k][1])
               /\ report.cells[k][2] > 0
               /\ k > 1 => report.cells[k - 1][1] < report.cells[k][1]
         /\ \A i \in 0..furthest_ptr :
               Cell(memory, i) > 0 => \E k \in 1..Len(report.cells) : report.cells[k][1] = i
    ELSE report = NoReport

\* The report of the run that set cell 10 to 7: that cell alone, and the
\* pointer
C14_Witness ==
    /\ pc = "done"
    /\ report = [shown |-> TRUE, cells |-> <<<<10, 7>>>>, ptr |-> 10]
    /\ furthest_ptr = 10

\* The number of [ less the number of ] among the first i characters of s
Depth(s, i) == Count(SubSeq(s, 1, i), "[") - Count(SubSeq(s, 1, i), "]")

\* Every ] of s closes a [ before it, and every [ is closed
ProperlyNested(s) ==
    /\ \A i \in 0..Len(s) : Depth(s, i) >= 0
    /\ Depth(s, Len(s)) = 0

\* C15 as stated: in a run of a program that sanitise_code accepted, so one
\* with as many [ as ], the engine is never at a loop-exit with the stack
\* empty
C15_NoExitOnEmptyStack ==
    SanitiseReturned /\ Balanced(brainfuck_code)
        => ~(AtInstr("]") /\ while_loop_start_indexes = <<>>)

\* C15, amended: in a run of a properly nested program the engine is never
\* at a loop-exit with the stack empty: where it is, the program is not
\* properly nested.
C15_NoExitOnEmptyStackNested ==
    AtInstr("]") /\ while_loop_start_indexes = <<>>
        => ~ProperlyNested(brainfuck_code)

\* The inner loop-exit of +[[-]] is reached with both loop-entries on the
\* stack
C15_Witness ==
    /\ brainfuck_code = <<"+", "[", "[", "-", "]", "]">>
    /\ AtInstr("]")
    /\ while_loop_start_indexes = <<1, 2>>

\* The index of the loop-entry that the loop-exit at index i of a properly
\* nested s closes: the last [ before i at the depth behind i
MatchingEntry(s, i) ==
    CHOOSE j \in 0..(i - 1) :
        /\ s[j + 1] = "["
        /\ Depth(s, j) = Depth(s, i + 1)
        /\ \A k \in (j + 1)..(i - 1) :
              ~(s[k + 1] = "[" /\ Depth(s, k) = Depth(s, i + 1))

\* C16: a loop-exit at index i of a properly nested program, executed with
\* the current cell above 0, leaves the stack as it is, with the index j of
\* the matching loop-entry on top, and the next instruction is the one at
\* j + 1; executed with the cell at 0 it pops exactly one entry and the next
\* instruction is the one at i + 1.  The tape and the pointer stay as they
\* are, and no fault is raised.
C16_LoopExitStep ==
    [][AtInstr("]") /\ ProperlyNested(brainfuck_code)
          => /\ IF Cell(memory, ptr) > 0
                THEN /\ while_loop_start_indexes' = while_loop_start_indexes
                     /\ while_loop_start_indexes # <<>>
                     /\ while_loop_start_indexes[Len(while_loop_start_indexes)]
                            = MatchingEntry(brainfuck_code, code_index)
                     /\ code_index' = MatchingEntry(brainfuck_code, code_index) + 1
                ELSE /\ while_loop_start_indexes # <<>>
                     /\ while_loop_start_indexes' =
                            SubSeq(while_loop_start_indexes, 1,
                                   Len(while_loop_start_indexes) - 1)
                     /\ code_index' = code_index + 1
             /\ pc' = "run"
             /\ error' = NoError
             /\ UNCHANGED <<memory, ptr, furthest_ptr, output, brainfuck_code>>]_vars

\* ++[>+<-] has gone back from its loop-exit: it is behind the loop-entry
\* again, the entry still on the stack
C16_Witness ==
    /\ brainfuck_code = <<"+", "+", "[", ">", "+", "<", "-", "]">>
    /\ pc = "run"
    /\ code_index = 3
    /\ while_loop_start_indexes = <<2>>
    /\ Cell(memory, 0) = 1
    /\ Cell(memory, 1) = 1

\* C17: the stack is empty when the run starts; in every state of the run
\* of a properly nested program the stack is as deep as the loops are nested
\* at the instruction pointer (the [ before it less the ] before it), however
\* often a loop body was repeated; so it is empty when the run has reached
\* the end of the stream.  Where the depths differ, the program is not
\* properly nested.
C17_StackDepthIsNesting ==
    /\ pc = "start" => while_loop_start_indexes = <<>>
    /\ Len(while_loop_start_indexes) # Depth(brainfuck_code, code_index)
          => ~ProperlyNested(brainfuck_code)
    /\ pc = "done" /\ while_loop_start_indexes # <<>>
          => ~ProperlyNested(brainfuck_code)

\* ++[>+<-] is at its loop-exit for the second time, one entry on the stack
C17_Witness ==
    /\ brainfuck_code = <<"+", "+", "[", ">", "+", "<", "-", "]">>
    /\ AtInstr("]")
    /\ Cell(memory, 1) = 2
    /\ Len(while_loop_start_indexes) = 1

\* C18: a loop-exit executed with the stack empty ends the run with an
\* error, whatever the current cell holds: the run does not go on to the
\* next instruction.
C18_EmptyStackFails ==
    [][AtInstr("]") /\ while_loop_start_indexes = <<>>
          => pc' \in {"exit", "panic"} /\ code_index' = code_index]_vars

C20_FurthestIsMaximum ==
    /\ [](pc = "start" => ptr = 0 /\ furthest_ptr = 0)
    /\ [][furthest_ptr' = IF ptr' > furthest_ptr THEN ptr' ELSE furthest_ptr]_vars
    /\ [](ptr <= furthest_ptr)
    /\ [](\A i \in DOMAIN memory : memory[i] # 0 => i <= furthest_ptr)

\* The pointer has been at cell 10, has set it, and is back at cell 9
C20_Witness ==
    /\ ptr = 9
    /\ furthest_ptr = 10
    /\ Cell(memory, 10) = 7

====
